---- MODULE Spec2Model ----
(***************************************************************************)
(* Model of the inference-serving cache and recommendation pipeline of     *)
(* ml-engine/inference/realtime_inference.py: CacheManager (three Redis    *)
(* key families with SETEX expiry), DatabaseManager (profile rows and the  *)
(* active-user roster), and ModelInferenceEngine (get_user_profile,        *)
(* predict_compatibility, get_recommendations) together with the           *)
(* background task _precompute_user_matches.                               *)
(*                                                                         *)
(* The engine runs on one asyncio event loop: a coroutine runs atomically  *)
(* from one suspension point to the next, and the only suspension points   *)
(* are the run_in_executor database reads and the gather of the fan-out.   *)
(* Every action below is one such segment, or one database read executed   *)
(* by an executor thread, or one step of the environment (time passing,    *)
(* Redis eviction, a change of the user_profiles table).                   *)
(*                                                                         *)
(* Optional values are sequences of length <= 1: <<>> is Python's None and *)
(* <<x>> is the value x.  Scores are tenths: 5 stands for 0.5.             *)
(***************************************************************************)
EXTENDS Integers, Sequences, FiniteSets, TLC

(***************************************************************************)
(* Program constants.                                                      *)
(***************************************************************************)
cache_ttl == 3600
max_candidates == 1000
RetainLen == 50
max_workers == 4
WarmTopK == 50
NeutralScore == 5

(***************************************************************************)
(* Bounds of the model.                                                    *)
(***************************************************************************)
MaxTicks == 2
MaxTopK == 2
MaxCandLen == 2
MaxCalls == 2
MaxEnv == 1
MaxFaults == 1
MaxUnitFaults == 3
MaxStaleSteps == 4

(***************************************************************************)
(* Identifiers are strings, modelled as sequences of characters so that    *)
(* sorted() and ':'.join() are computed as Python computes them.           *)
(***************************************************************************)
Users == {<<"a">>, <<"b">>, <<"c">>}
ProfileVals == {1, 2}
Slots == {1}
NSub == IF MaxCandLen > Cardinality(Users) THEN MaxCandLen ELSE Cardinality(Users)
SubIdx == 1..NSub
TopKs == 0..MaxTopK
RECURSIVE SeqsUpTo(_, _)
SeqsUpTo(S, n) ==
  IF n = 0 THEN {<<>>}
  ELSE LET shorter == SeqsUpTo(S, n - 1)
       IN shorter \cup {Append(q, x) : q \in shorter, x \in S}
\* Inputs of the calls: who asks for recommendations, and the candidate lists
\* a caller supplies (None, or a list of other users, repetitions allowed).
Requesters == {<<"a">>, <<"c">>}
CandidateArgs(user_id) ==
  {<<>>} \cup {<<l>> : l \in SeqsUpTo(Users \ {user_id}, MaxCandLen)}
\* every string a compat key can be: 'compat:' + id + ':' + id
KeySpace == {<<"compat:">> \o u \o <<":">> \o v : u \in Users, v \in Users}
PairSets == {{u, v} : u \in Users, v \in Users}

CharCode(ch) ==
  CASE ch = ":" -> 58
    [] ch = "a" -> 97
    [] ch = "b" -> 98
    [] ch = "c" -> 99
    [] ch = "d" -> 100
    [] ch = "e" -> 101
    [] ch = "f" -> 102

\* Python's str.__lt__: lexicographic by code point, a proper prefix is smaller.
RECURSIVE StrLess(_, _)
StrLess(s, t) ==
  IF t = <<>> THEN FALSE
  ELSE IF s = <<>> THEN TRUE
  ELSE IF CharCode(Head(s)) # CharCode(Head(t))
       THEN CharCode(Head(s)) < CharCode(Head(t))
       ELSE StrLess(Tail(s), Tail(t))

\* sorted([user1_id, user2_id])
SortedPair(u1, u2) == IF StrLess(u2, u1) THEN <<u2, u1>> ELSE <<u1, u2>>

\* f"compat:{':'.join(sorted([user1_id, user2_id]))}"
CompatKey(u1, u2) ==
  LET p == SortedPair(u1, u2) IN <<"compat:">> \o p[1] \o <<":">> \o p[2]

\* json.dumps / json.loads of a profile dict or of a list of match dicts
Dumps(x) == [json |-> x]
Loads(s) == s.json

\* str(score) / float(text) of a score
StrOfScore(x) == [text |-> x]
FloatOfStr(s) == s.text

\* A feature column that is NULL in the users table: np.array([None, ...],
\* dtype=np.float32) turns it into nan, and every score computed from it is nan.
NullFeature == 0 - 1
NaN == 0 - 100
IsNaN(x) == x = NaN

\* a < b on floats: false whenever either side is nan
Lt(a, b) == ~IsNaN(a) /\ ~IsNaN(b) /\ a < b

\* np.clip(x, 0, 1): nan passes through
Clip(x) == IF Lt(x, 0) THEN 0 ELSE IF Lt(10, x) THEN 10 ELSE x

\* The weighted ensemble before clipping: the regressor's output is not
\* bounded, so the sum can leave [0,1].  The two feature vectors are
\* concatenated in argument order, so it is not symmetric.
EnsembleScore(d1, d2) ==
  IF d1 = NullFeature \/ d2 = NullFeature THEN NaN
  ELSE IF d1 = d2 THEN 12 ELSE IF d1 < d2 THEN 7 ELSE 0 - 2

\* The scoring function HybridRecommender.predict_compatibility; np.clip
\* keeps a finite result inside [0,1].
ModelPredict(d1, d2) == Clip(EnsembleScore(d1, d2))

\* {k: v for k, v in profile.items() if k != 'user_id'}
DropUserId(profile) == profile.attrs

\* recommendations.sort(key=score, reverse=True): a stable sort, so entries
\* of equal score keep the order in which they were listed.
RECURSIVE InsertDesc(_, _)
InsertDesc(sorted, x) ==
  IF sorted = <<>> THEN <<x>>
  ELSE IF ~Lt(Head(sorted).compatibility_score, x.compatibility_score)
       THEN <<Head(sorted)>> \o InsertDesc(Tail(sorted), x)
       ELSE <<x>> \o sorted

RECURSIVE SortByScoreDesc(_)
SortByScoreDesc(recs) ==
  IF recs = <<>> THEN <<>>
  ELSE InsertDesc(SortByScoreDesc(SubSeq(recs, 1, Len(recs) - 1)), recs[Len(recs)])

\* seq[:k] for k >= 0
Prefix(seq, k) == SubSeq(seq, 1, IF k < Len(seq) THEN k ELSE Len(seq))

\* the fetched roster used as it came
RemoveSelfKeeping(ids, user) == ids

\* [cid for cid in candidate_ids if cid != user_id]
RemoveSelf(ids, user) == SelectSeq(ids, LAMBDA cid : cid # user)

VARIABLES
  now,            \* wall clock, in seconds
  db,             \* user_profiles rows: db[u] = <<>> (no row) or <<attrs>>
  roster,         \* users active in the last 7 days, most recent first
  profileCache,   \* Redis user_profile:{id}: <<>> or <<[val, exp]>>
  compatCache,    \* Redis compat:{..}: <<>> or <<[val, exp]>> per key
  matchesCache,   \* Redis matches:{id}: <<>> or <<[val, exp]>>
  req,            \* the top-level call in flight in each slot
  sub,            \* the predict_compatibility coroutines of each slot
  hist,           \* observations of completed calls (history only)
  config,         \* the InferenceConfig the engine was constructed with
  waiting,        \* the executor's work queue: jobs no worker has taken yet
  batch,          \* the _batch_precompute_matches background task
  budget          \* calls and environment steps taken so far (bounds the model)

vars == <<now, db, roster, profileCache, compatCache, matchesCache, req, sub, hist,
          config, waiting, batch, budget>>

(***************************************************************************)
(* CacheManager.  ok = FALSE is a Redis error: every method catches it,    *)
(* logs, and returns None (get) or does nothing (set).  Expired keys are   *)
(* removed by Tick, so a key that is present is live.                      *)
(***************************************************************************)
Entry(val, ttl) == [val |-> val, exp |-> now + ttl]

\* the three expiry times the CacheManager passes to setex
ProfileTtl == config.cache_ttl
CompatTtl == config.cache_ttl * 2
ListTtl == config.cache_ttl * 6

\* redis_client.setex(key, ttl, val): Redis refuses an expire time that is not
\* positive, the client raises, and the CacheManager method logs and goes on
Setex(K, key, ttl, val) == IF ttl > 0 THEN [K EXCEPT ![key] = <<Entry(val, ttl)>>] ELSE K

\* a resolver that never finds the profile in the cache
CacheGetUserProfileBypassed(P, user_id, ok) == <<>>

CacheGetUserProfile(P, user_id, ok) ==
  IF ok /\ P[user_id] # <<>> /\ P[user_id][1].exp > now THEN <<Loads(P[user_id][1].val)>> ELSE <<>>

CacheSetUserProfile(P, user_id, profile, ok) ==
  IF ok THEN Setex(P, user_id, ProfileTtl, Dumps(profile)) ELSE P

CacheGetMatches(M, user_id, ok) ==
  IF ok /\ M[user_id] # <<>> /\ M[user_id][1].exp > now THEN <<Loads(M[user_id][1].val)>> ELSE <<>>

CacheSetMatches(M, user_id, matches, ok) ==
  IF ok THEN Setex(M, user_id, ListTtl, Dumps(matches)) ELSE M

CacheGetCompat(C, user1_id, user2_id, ok) ==
  LET key == CompatKey(user1_id, user2_id)
  IN IF ok /\ C[key] # <<>> /\ C[key][1].exp > now THEN <<FloatOfStr(C[key][1].val)>> ELSE <<>>

\* the write keyed by the identifiers in argument order
CacheSetCompatArgOrder(C, user1_id, user2_id, score, ok) ==
  IF ok
  THEN Setex(C, <<"compat:">> \o user1_id \o <<":">> \o user2_id, CompatTtl,
             StrOfScore(score))
  ELSE C

CacheSetCompat(C, user1_id, user2_id, score, ok) ==
  LET key == CompatKey(user1_id, user2_id)
  IN IF ok
     THEN Setex(C, key, CompatTtl, StrOfScore(score))
     ELSE C

(***************************************************************************)
(* DatabaseManager.  ok = FALSE is a missing pool or a query error: both   *)
(* reads then return None, respectively [].                                *)
(***************************************************************************)
DbGetUserProfile(user_id, ok) ==
  IF ok /\ db[user_id] # <<>>
  THEN <<[user_id |-> user_id, attrs |-> db[user_id][1]]>>
  ELSE <<>>

DbGetActiveUsers(limit, ok) == IF ok THEN Prefix(roster, limit) ELSE <<>>

(***************************************************************************)
(* Records of the calls in flight.                                         *)
(***************************************************************************)
NoTask ==
  [pc |-> "idle", u1 |-> <<>>, u2 |-> <<>>, p1 |-> <<>>, rd |-> <<>>,
   ret |-> 0, how |-> "none", nScore |-> 0, nStore |-> 0, nProf |-> 0,
   fault |-> FALSE]

NewTask(user1_id, user2_id) ==
  [NoTask EXCEPT !.pc = "start", !.u1 = user1_id, !.u2 = user2_id]

NoReq ==
  [kind |-> "none", pc |-> "idle", user |-> <<>>, given |-> <<>>,
   cands |-> <<>>, topk |-> 0, rd |-> <<>>,
   resProfile |-> <<>>, resList |-> <<>>, resScore |-> 0,
   fast |-> FALSE, fanout |-> FALSE, sysGen |-> FALSE, resolved |-> FALSE,
   wrote |-> FALSE,
   nStore |-> 0, fault |-> FALSE, failed |-> {},
   order |-> <<>>,
   listAtCall |-> <<>>, profAtCall |-> <<>>, warmAtCall |-> FALSE,
   histAtCall |-> <<>>, pairAtCall |-> <<>>, lastAtCall |-> <<>>,
   nfAtCall |-> FALSE]

NoSubs == [i \in SubIdx |-> NoTask]

\* _batch_precompute_matches: the users it fetched, how many of them it has
\* warmed or begun to warm, and whether a warm of it met a failure
NoBatch == [pc |-> "idle", limit |-> 0, users |-> <<>>, idx |-> 0, faulted |-> FALSE]
Idle(S) == [i \in DOMAIN S |-> NoTask]

(***************************************************************************)
(* self.executor, the one ThreadPoolExecutor(max_workers=4) of the engine: *)
(* every database read of every call is submitted to it.  A job is <<s, i>>*)
(* for coroutine i of slot s, <<s, 0>> for the top-level call of slot s.   *)
(* A submitted job runs at once while a worker is free, and otherwise      *)
(* waits in the queue until a worker finishes its job.                     *)
(***************************************************************************)
Range(q) == {q[n] : n \in DOMAIN q}
Submitted ==
  {<<s, 0>> : s \in {x \in DOMAIN req : req[x].pc \in {"dbU", "dbR"}}}
  \cup (IF batch.pc = "dbA" THEN {<<0, 0>>} ELSE {})
  \cup UNION {{<<s, i>> : i \in {j \in DOMAIN sub[s] : sub[s][j].pc \in {"db1", "db2"}}} :
                s \in DOMAIN sub}
Running == Submitted \ Range(waiting)
\* run_in_executor(self.executor, ...) of job j
Submit(j) == IF Cardinality(Running) >= max_workers THEN Append(waiting, j) ELSE waiting
\* the worker that finished a job takes the next one from the queue
WorkerFreed == IF waiting = <<>> THEN waiting ELSE Tail(waiting)

\* The Redis operations of a predict_compatibility segment, and the scoring
\* call ("raise"); the Redis operations of a top-level segment.
SubOps == {"cget", "pget1", "pget2", "pset", "cset", "raise"}
ReqOps == {"mget", "pget", "pset", "mset"}

\* A segment draws the set F of its operations that fail.  Only operations
\* the segment performs can fail in it, and the model stops injecting
\* failures at its bound.
FaultSets(ops) ==
  {F \in SUBSET ops : Cardinality(F) <= MaxFaults - budget.faults}
Use(m, n) == [m EXCEPT !.used = @ \cup {n}]

SpendFaults(b, n) == [b EXCEPT !.faults = @ + n]
SpendCall(b) == [b EXCEPT !.calls = @ + 1]
CanCall == budget.calls < MaxCalls
SpendEnv == budget.env < MaxEnv /\ budget' = [budget EXCEPT !.env = @ + 1]

InitDbs ==
  {[u \in Users |-> IF u = <<"c">> THEN <<>> ELSE <<1>>],
   [u \in Users |-> IF u = <<"c">> THEN <<>> ELSE IF u = <<"a">> THEN <<1>> ELSE <<2>>]}

\* no value of the row has been replaced yet
NeverHeld == [v \in ProfileVals |-> 0 - 1]

\* a users table in which user b's row has a NULL feature column
NullDbs ==
  {[u \in Users |-> IF u = <<"c">> THEN <<>> ELSE IF u = <<"a">> THEN <<1>> ELSE <<NullFeature>>]}

\* InferenceConfig is a plain dataclass: it takes any integers.  The defaults,
\* and the other configurations the engine is constructed with here.
DefaultConfig == [cache_ttl |-> cache_ttl, max_candidates |-> max_candidates]
Configs ==
  {DefaultConfig,
   [DefaultConfig EXCEPT !.max_candidates = 1],
   [DefaultConfig EXCEPT !.cache_ttl = 0],
   [DefaultConfig EXCEPT !.cache_ttl = 0 - cache_ttl]}

\* Redis outlives the engine: a newly constructed engine finds the cache empty,
\* or finds what an earlier run left there (here user a's profile, written
\* under the default configuration).
ColdProfiles == [u \in Users |-> <<>>]
LeftProfiles ==
  [u \in Users |->
     IF u = <<"a">>
     THEN <<[val |-> Dumps([user_id |-> u, attrs |-> 1]), exp |-> cache_ttl]>>
     ELSE <<>>]
NotedProfiles(P) ==
  [u \in Users |-> IF P[u] = <<>> THEN <<>> ELSE <<[val |-> Loads(P[u][1].val), at |-> 0]>>]

\* the engine right after construction, with configuration cfg
Start(cfg, b, P, D) ==
  /\ now = 0
  /\ config = cfg
  /\ db \in D
  /\ roster = << <<"b">>, <<"a">> >>
  /\ profileCache = P
  /\ compatCache = [k \in KeySpace |-> <<>>]
  /\ matchesCache = [u \in Users |-> <<>>]
  /\ req = [s \in Slots |-> NoReq]
  /\ sub = [s \in Slots |-> NoSubs]
  /\ hist = [prof |-> NotedProfiles(P),
             compat |-> [p \in PairSets |-> <<>>],
             warm |-> [u \in Users |-> <<>>],
             last |-> [p \in PairSets |-> <<>>],
             nf |-> [u \in Users |-> FALSE],
             gone |-> [u \in Users |-> NeverHeld]]
  /\ budget = b
  /\ waiting = <<>>
  /\ batch = NoBatch

Init == Start(DefaultConfig, [calls |-> 0, env |-> 0, faults |-> 0], ColdProfiles, InitDbs)

\* one call on a freshly constructed engine, under any of the configurations
\* and with up to MaxUnitFaults failures
InitUnit ==
  \E cfg \in Configs, P \in {ColdProfiles, LeftProfiles} :
    Start(cfg, [calls |-> MaxCalls - 1, env |-> MaxEnv,
                faults |-> MaxFaults - MaxUnitFaults], P, InitDbs \cup NullDbs)

(***************************************************************************)
(* ModelInferenceEngine.predict_compatibility, one coroutine.  A segment   *)
(* works on m = [t, P, C, hp, hc, hl, used]: the coroutine's record, the   *)
(* profile and compatibility key families, the histories of successful     *)
(* cache writes and of computed scores, and the operations performed.  F   *)
(* is the set of the segment's operations that fail: a Redis operation     *)
(* that errors, or the scoring function raising.                           *)
(***************************************************************************)
NoteProfile(hp, user_id, profile, ok) ==
  IF ok /\ ProfileTtl > 0
  THEN [hp EXCEPT ![user_id] = <<[val |-> profile, at |-> now]>>] ELSE hp

NoteCompat(hc, user1_id, user2_id, score, calls, ok) ==
  IF ok /\ CompatTtl > 0
  THEN [hc EXCEPT ![{user1_id, user2_id}] =
                <<[val |-> score, at |-> now, by |-> <<user1_id, user2_id>>,
                   calls |-> calls]>>]
  ELSE hc

\* the scoring call outside the try block: its exception leaves the coroutine
ScoreComputeUnguarded(m, p1, p2, F) ==
  IF p1 = <<>> \/ p2 = <<>>
  THEN [m EXCEPT !.t.pc = "done", !.t.ret = NeutralScore, !.t.how = "missing"]
  ELSE IF "raise" \in F
  THEN [m EXCEPT !.t.pc = "done", !.t.ret = 0, !.t.how = "propagated",
                 !.t.nScore = @ + 1, !.used = @ \cup {"raise"}]
  ELSE LET score == ModelPredict(DropUserId(p1[1]), DropUserId(p2[1]))
       IN [m EXCEPT !.t.pc = "done", !.t.ret = score, !.t.how = "computed",
                    !.t.nScore = @ + 1,
                    !.C = CacheSetCompat(m.C, m.t.u1, m.t.u2, score, "cset" \notin F),
                    !.hc = NoteCompat(m.hc, m.t.u1, m.t.u2, score, m.t.nScore + 1,
                                     "cset" \notin F),
                    !.hl = [m.hl EXCEPT ![{m.t.u1, m.t.u2}] =
                              <<[val |-> score, by |-> <<m.t.u1, m.t.u2>>]>>],
                    !.used = @ \cup {"raise", "cset"}]

\* the neutral default written to the compatibility cache when a profile is missing
ScoreComputeCachingDefault(m, p1, p2, F) ==
  IF p1 = <<>> \/ p2 = <<>>
  THEN [m EXCEPT !.t.pc = "done", !.t.ret = NeutralScore, !.t.how = "missing",
                 !.C = CacheSetCompat(m.C, m.t.u1, m.t.u2, NeutralScore, TRUE)]
  ELSE IF "raise" \in F
  THEN [m EXCEPT !.t.pc = "done", !.t.ret = NeutralScore, !.t.how = "raised",
                 !.t.nScore = @ + 1, !.used = @ \cup {"raise"}]
  ELSE LET score == ModelPredict(DropUserId(p1[1]), DropUserId(p2[1]))
       IN [m EXCEPT !.t.pc = "done", !.t.ret = score, !.t.how = "computed",
                    !.t.nScore = @ + 1,
                    !.C = CacheSetCompat(m.C, m.t.u1, m.t.u2, score, "cset" \notin F),
                    !.hc = NoteCompat(m.hc, m.t.u1, m.t.u2, score, m.t.nScore + 1,
                                     "cset" \notin F),
                    !.hl = [m.hl EXCEPT ![{m.t.u1, m.t.u2}] =
                              <<[val |-> score, by |-> <<m.t.u1, m.t.u2>>]>>],
                    !.used = @ \cup {"raise", "cset"}]

\* lines 352-370: the None check, the scoring call and the cache write
ScoreCompute(m, p1, p2, F) ==
  IF p1 = <<>> \/ p2 = <<>>
  THEN [m EXCEPT !.t.pc = "done", !.t.ret = NeutralScore, !.t.how = "missing"]
  ELSE IF "raise" \in F
  THEN [m EXCEPT !.t.pc = "done", !.t.ret = NeutralScore, !.t.how = "raised",
                 !.t.nScore = @ + 1, !.used = @ \cup {"raise"}]
  ELSE LET score == ModelPredict(DropUserId(p1[1]), DropUserId(p2[1]))
       IN [m EXCEPT !.t.pc = "done", !.t.ret = score, !.t.how = "computed",
                    !.t.nScore = @ + 1,
                    !.C = CacheSetCompat(m.C, m.t.u1, m.t.u2, score, "cset" \notin F),
                    !.hc = NoteCompat(m.hc, m.t.u1, m.t.u2, score, m.t.nScore + 1,
                                     "cset" \notin F),
                    !.hl = [m.hl EXCEPT ![{m.t.u1, m.t.u2}] =
                              <<[val |-> score, by |-> <<m.t.u1, m.t.u2>>]>>],
                    !.used = @ \cup {"raise", "cset"}]

\* line 350: get_user_profile(user2_id) up to its database read
ScoreResolve2(m, p1, F) ==
  LET cached == CacheGetUserProfile(m.P, m.t.u2, "pget2" \notin F)
      m1 == [Use(m, "pget2") EXCEPT !.t.nProf = @ + 1]
  IN IF cached # <<>>
     THEN ScoreCompute(m1, p1, cached, F)
     ELSE [m1 EXCEPT !.t.pc = "db2", !.t.p1 = p1]

\* line 349: get_user_profile(user1_id) up to its database read
ScoreResolve1(m, F) ==
  LET cached == CacheGetUserProfile(m.P, m.t.u1, "pget1" \notin F)
      m1 == [Use(m, "pget1") EXCEPT !.t.nProf = @ + 1]
  IN IF cached # <<>>
     THEN ScoreResolve2(m1, cached, F)
     ELSE [m1 EXCEPT !.t.pc = "db1"]

\* a hit that writes the entry back, which restarts its time to live
ScoreBeginRefreshing(m, F) ==
  LET cached_score == CacheGetCompat(m.C, m.t.u1, m.t.u2, "cget" \notin F)
      m1 == Use(m, "cget")
  IN IF cached_score # <<>>
     THEN [m1 EXCEPT !.t.pc = "done", !.t.ret = cached_score[1], !.t.how = "hit",
                     !.C = CacheSetCompat(m.C, m.t.u1, m.t.u2, cached_score[1], TRUE)]
     ELSE ScoreResolve1(m1, F)

\* lines 342-346: the compatibility cache check
ScoreBegin(m, F) ==
  LET cached_score == CacheGetCompat(m.C, m.t.u1, m.t.u2, "cget" \notin F)
      m1 == Use(m, "cget")
  IN IF cached_score # <<>>
     THEN [m1 EXCEPT !.t.pc = "done", !.t.ret = cached_score[1], !.t.how = "hit"]
     ELSE ScoreResolve1(m1, F)

\* lines 334-338 and on: the coroutine resumes with the row read for user 1 or 2
ScoreResume(m, F) ==
  LET profile == m.t.rd
      who == IF m.t.pc = "db1r" THEN m.t.u1 ELSE m.t.u2
      m1 == IF profile # <<>>
            THEN [m EXCEPT !.P = CacheSetUserProfile(m.P, who, profile[1], "pset" \notin F),
                           !.hp = NoteProfile(m.hp, who, profile[1], "pset" \notin F),
                           !.used = @ \cup {"pset"}]
            ELSE m
  IN IF m.t.pc = "db1r"
     THEN ScoreResolve2(m1, profile, F)
     ELSE ScoreCompute(m1, m.t.p1, profile, F)

Pack(s, i) ==
  [t |-> sub[s][i], P |-> profileCache, C |-> compatCache,
   hp |-> hist.prof, hc |-> hist.compat, hl |-> hist.last, used |-> {}]

Unpack(s, i, m, F) ==
  /\ F \subseteq m.used
  /\ sub' = [sub EXCEPT ![s][i] = [m.t EXCEPT !.fault = @ \/ F \ {"raise"} # {}]]
  /\ profileCache' = m.P
  /\ compatCache' = m.C
  /\ hist' = [hist EXCEPT !.prof = m.hp, !.compat = m.hc, !.last = m.hl]
  /\ budget' = SpendFaults(budget, Cardinality(F))
  /\ req' = IF m.t.pc = "done" THEN [req EXCEPT ![s].order = Append(@, i)] ELSE req
  /\ waiting' = IF m.t.pc \in {"db1", "db2"} THEN Submit(<<s, i>>) ELSE waiting
  /\ UNCHANGED <<config, batch, now, db, roster, matchesCache>>

\* The first segments of the gathered coroutines run in argument order, before
\* any of them is resumed: the event loop's ready queue is first-in first-out.
SubStart(s, i) ==
  /\ sub[s][i].pc = "start"
  /\ \A j \in DOMAIN sub[s] : j < i => sub[s][j].pc # "start"
  /\ \E F \in FaultSets(SubOps) : Unpack(s, i, ScoreBegin(Pack(s, i), F), F)

DbOutcomes == IF budget.faults < MaxFaults THEN {TRUE, FALSE} ELSE {TRUE}
DbSpend(ok) == SpendFaults(budget, IF ok THEN 0 ELSE 1)

\* DatabaseManager.get_user_profile runs on an executor thread
SubDbRead(s, i) ==
  /\ sub[s][i].pc \in {"db1", "db2"}
  /\ <<s, i>> \notin Range(waiting)
  /\ waiting' = WorkerFreed
  /\ \E ok \in DbOutcomes :
       LET t == sub[s][i]
           who == IF t.pc = "db1" THEN t.u1 ELSE t.u2
       IN /\ sub' = [sub EXCEPT ![s][i] =
                       [t EXCEPT !.pc = IF t.pc = "db1" THEN "db1r" ELSE "db2r",
                                 !.rd = DbGetUserProfile(who, ok),
                                 !.nStore = @ + 1,
                                 !.fault = @ \/ ~ok]]
          /\ budget' = DbSpend(ok)
  /\ UNCHANGED <<config, batch, now, db, roster, profileCache, compatCache, matchesCache, req, hist>>

SubResume(s, i) ==
  /\ sub[s][i].pc \in {"db1r", "db2r"}
  /\ \A j \in DOMAIN sub[s] : sub[s][j].pc # "start"
  /\ \E F \in FaultSets(SubOps) : Unpack(s, i, ScoreResume(Pack(s, i), F), F)

(***************************************************************************)
(* The top-level calls: get_user_profile (resolve), predict_compatibility  *)
(* (score), get_recommendations (recommend) and _precompute_user_matches   *)
(* (warm).  A segment works on m = [r, subs, P, M, hp, hw, used].          *)
(* top_k is read only where the result is truncated, so the model draws it *)
(* there (k) instead of carrying it through the call.                      *)
(***************************************************************************)
\* Python's "not candidate_ids" on an Optional[List[str]]
NotCandidates(opt) == opt = <<>> \/ opt[1] = <<>>

\* line 418: "if not candidate_ids", read after the reassignment of line 394
ShouldCacheList(given, candidate_ids) == candidate_ids = <<>>

TopKOf(r, k) == IF r.kind = "warm" THEN WarmTopK ELSE k

\* the list cached as it was zipped, before the sort, whenever the caller gave
\* no candidates
RecFinishCachingUnsorted(m, scores, F, k) ==
  LET r == m.r
      recommendations ==
        [i \in 1..(IF Len(scores) < Len(r.cands) THEN Len(scores) ELSE Len(r.cands)) |->
           [user_id |-> r.cands[i], compatibility_score |-> scores[i],
            timestamp |-> now]]
      sorted == SortByScoreDesc(recommendations)
      caches == NotCandidates(r.given)
  IN [m EXCEPT !.r.pc = "done",
               !.r.topk = TopKOf(r, k),
               !.r.resList = Prefix(sorted, TopKOf(r, k)),
               !.r.wrote = caches,
               !.M = IF caches
                     THEN CacheSetMatches(m.M, r.user, recommendations, "mset" \notin F)
                     ELSE m.M,
               !.used = IF caches THEN @ \cup {"mset"} ELSE @]

\* lines 404-425: zip, sort, truncate, cache, return
RecFinish(m, scores, F, k) ==
  LET r == m.r
      recommendations ==
        [i \in 1..(IF Len(scores) < Len(r.cands) THEN Len(scores) ELSE Len(r.cands)) |->
           [user_id |-> r.cands[i], compatibility_score |-> scores[i],
            timestamp |-> now]]
      sorted == SortByScoreDesc(recommendations)
      caches == ShouldCacheList(r.given, r.cands)
      warmed == r.kind = "warm" /\ r.cands # <<>> /\ ~r.fault
  IN [m EXCEPT !.r.pc = "done",
               !.r.topk = TopKOf(r, k),
               !.r.resList = Prefix(sorted, TopKOf(r, k)),
               !.r.wrote = caches,
               !.M = IF caches
                     THEN CacheSetMatches(m.M, r.user, Prefix(sorted, RetainLen),
                                          "mset" \notin F)
                     ELSE m.M,
               !.hw = IF warmed THEN [m.hw EXCEPT ![r.user] = <<[at |-> now]>>]
                      ELSE m.hw,
               !.used = IF caches THEN @ \cup {"mset"} ELSE @]

\* lines 396-402: one predict_compatibility coroutine per candidate, gathered
RecFanOut(m, candidate_ids, F, k) ==
  LET m1 == [m EXCEPT !.r.cands = candidate_ids]
  IN IF candidate_ids = <<>>
     THEN RecFinish(m1, <<>>, F, k)
     ELSE [m1 EXCEPT !.r.pc = "gather", !.r.fanout = TRUE,
                     !.subs = [i \in DOMAIN m.subs |->
                                 IF i <= Len(candidate_ids)
                                 THEN NewTask(m.r.user, candidate_ids[i])
                                 ELSE NoTask]]

\* the "if not user_profile: return []" left out
RecAfterProfileUnchecked(m, user_profile, F, k) ==
  IF NotCandidates(m.r.given)
  THEN [m EXCEPT !.r.pc = "dbR"]
  ELSE RecFanOut(m, m.r.given[1], F, k)

\* lines 385-394 up to the roster read
RecAfterProfile(m, user_profile, F, k) ==
  IF user_profile = <<>>
  THEN [m EXCEPT !.r.pc = "done", !.r.resList = <<>>, !.r.topk = TopKOf(m.r, k)]
  ELSE IF NotCandidates(m.r.given)
       THEN [m EXCEPT !.r.pc = "dbR", !.r.resolved = TRUE]
       ELSE RecFanOut([m EXCEPT !.r.resolved = TRUE], m.r.given[1], F, k)

\* the cached list served whenever the key is present ("is not None")
RecBeginServingAnyList(m, F, k) ==
  LET cached_matches == CacheGetMatches(m.M, m.r.user, "mget" \notin F)
      m1 == Use(m, "mget")
  IN IF cached_matches # <<>> /\ NotCandidates(m.r.given)
     THEN [m1 EXCEPT !.r.pc = "done", !.r.fast = TRUE,
                     !.r.topk = TopKOf(m.r, k),
                     !.r.resList = Prefix(cached_matches[1], TopKOf(m.r, k))]
     ELSE LET profile == CacheGetUserProfile(m.P, m.r.user, "pget" \notin F)
              m2 == Use(m1, "pget")
          IN IF profile # <<>>
             THEN RecAfterProfile(m2, profile, F, k)
             ELSE [m2 EXCEPT !.r.pc = "dbU"]

\* lines 377-384: the precomputed list, then the requester's profile
RecBegin(m, F, k) ==
  LET cached_matches == CacheGetMatches(m.M, m.r.user, "mget" \notin F)
      m1 == Use(m, "mget")
  IN IF cached_matches # <<>> /\ cached_matches[1] # <<>> /\ NotCandidates(m.r.given)
     THEN [m1 EXCEPT !.r.pc = "done", !.r.fast = TRUE,
                     !.r.topk = TopKOf(m.r, k),
                     !.r.resList = Prefix(cached_matches[1], TopKOf(m.r, k))]
     ELSE LET profile == CacheGetUserProfile(m.P, m.r.user, "pget" \notin F)
              m2 == Use(m1, "pget")
          IN IF profile # <<>>
             THEN RecAfterProfile(m2, profile, F, k)
             ELSE [m2 EXCEPT !.r.pc = "dbU"]

\* lines 324-332: get_user_profile up to its database read
ResolveBegin(m, F) ==
  LET profile == CacheGetUserProfile(m.P, m.r.user, "pget" \notin F)
      m1 == Use(m, "pget")
  IN IF profile # <<>>
     THEN [m1 EXCEPT !.r.pc = "done", !.r.resProfile = profile,
                     !.hn = [m.hn EXCEPT ![m.r.user] = FALSE]]
     ELSE [m1 EXCEPT !.r.pc = "dbU"]

\* a NotFound cached as a placeholder profile
ResumeUserCachingNotFound(m, F, k) ==
  LET profile == m.r.rd
      found == IF profile # <<>> THEN profile[1] ELSE [user_id |-> m.r.user, attrs |-> 0]
      m1 == [m EXCEPT !.P = CacheSetUserProfile(m.P, m.r.user, found, "pset" \notin F),
                      !.hp = NoteProfile(m.hp, m.r.user, found, "pset" \notin F),
                      !.used = @ \cup {"pset"}]
  IN IF m.r.kind = "resolve"
     THEN [m1 EXCEPT !.r.pc = "done", !.r.resProfile = profile,
                     !.hn = [m.hn EXCEPT ![m.r.user] = (profile = <<>>)]]
     ELSE RecAfterProfile(m1, profile, F, k)

\* the row returned only when the cache write succeeded
ResumeUserWriteRequired(m, F, k) ==
  LET profile == IF "pset" \in F THEN <<>> ELSE m.r.rd
      m1 == IF m.r.rd # <<>>
            THEN [m EXCEPT !.P = CacheSetUserProfile(m.P, m.r.user, m.r.rd[1], "pset" \notin F),
                           !.hp = NoteProfile(m.hp, m.r.user, m.r.rd[1], "pset" \notin F),
                           !.used = @ \cup {"pset"}]
            ELSE m
  IN IF m.r.kind = "resolve"
     THEN [m1 EXCEPT !.r.pc = "done", !.r.resProfile = profile,
                     !.hn = [m.hn EXCEPT ![m.r.user] = (profile = <<>>)]]
     ELSE RecAfterProfile(m1, profile, F, k)

\* lines 334-338: get_user_profile resumes with the row, then its caller goes on
ResumeUser(m, F, k) ==
  LET profile == m.r.rd
      m1 == IF profile # <<>>
            THEN [m EXCEPT !.P = CacheSetUserProfile(m.P, m.r.user, profile[1], "pset" \notin F),
                           !.hp = NoteProfile(m.hp, m.r.user, profile[1], "pset" \notin F),
                           !.used = @ \cup {"pset"}]
            ELSE m
  IN IF m.r.kind = "resolve"
     THEN [m1 EXCEPT !.r.pc = "done", !.r.resProfile = profile,
                     !.hn = [m.hn EXCEPT ![m.r.user] = (profile = <<>>)]]
     ELSE RecAfterProfile(m1, profile, F, k)

PackReq(s, r) ==
  [r |-> r, subs |-> sub[s], P |-> profileCache, M |-> matchesCache,
   hp |-> hist.prof, hw |-> hist.warm, hn |-> hist.nf, used |-> {}]

\* k is drawn only by a segment that truncates
StoreReq(s, m, F, k, b) ==
  /\ F \subseteq m.used
  /\ k = IF m.r.pc = "done" /\ m.r.kind = "recommend" THEN m.r.topk ELSE 0
  /\ req' = [req EXCEPT ![s] = [m.r EXCEPT !.fault = @ \/ F # {},
                                        !.failed = IF m.r.kind = "resolve" THEN @ \cup F ELSE @]]
  /\ sub' = [sub EXCEPT ![s] = m.subs]
  /\ profileCache' = m.P
  /\ matchesCache' = m.M
  /\ hist' = [hist EXCEPT !.prof = m.hp, !.warm = m.hw, !.nf = m.hn]
  /\ budget' = SpendFaults(b, Cardinality(F))
  /\ waiting' = IF m.r.pc \in {"dbU", "dbR"} THEN Submit(<<s, 0>>) ELSE waiting
  /\ UNCHANGED <<config, now, db, roster, compatCache>>

UnpackReq(s, m, F, k, b) == StoreReq(s, m, F, k, b) /\ UNCHANGED batch

NewReq(kind, user_id, given) ==
  [NoReq EXCEPT !.kind = kind, !.user = user_id, !.given = given,
                !.listAtCall = matchesCache[user_id],
                !.profAtCall = profileCache[user_id],
                !.histAtCall = hist.prof[user_id],
                !.warmAtCall = hist.warm[user_id] # <<>>,
                !.nfAtCall = hist.nf[user_id]]

CallResolve(s, user_id) ==
  /\ req[s].pc = "idle"
  /\ CanCall
  /\ \E F \in FaultSets(ReqOps) :
       UnpackReq(s, ResolveBegin(PackReq(s, NewReq("resolve", user_id, <<>>)), F), F, 0, SpendCall(budget))

CallScore(s, user1_id, user2_id) ==
  /\ req[s].pc = "idle"
  /\ CanCall
  /\ req' = [req EXCEPT ![s] =
               [NewReq("score", user1_id, <<>>) EXCEPT
                  !.pc = "gather", !.cands = <<user2_id>>,
                  !.pairAtCall = hist.compat[{user1_id, user2_id}],
                  !.lastAtCall = hist.last[{user1_id, user2_id}]]]
  /\ sub' = [sub EXCEPT ![s] = [Idle(sub[s]) EXCEPT ![1] = NewTask(user1_id, user2_id)]]
  /\ budget' = SpendCall(budget)
  /\ UNCHANGED <<config, batch, waiting, now, db, roster, profileCache, compatCache, matchesCache, hist>>

CallRecommend(s, user_id, candidate_ids) ==
  /\ req[s].pc = "idle"
  /\ CanCall
  /\ \E F \in FaultSets(ReqOps), k \in TopKs :
       UnpackReq(s, RecBegin(PackReq(s, NewReq("recommend", user_id, candidate_ids)), F, k),
                 F, k, SpendCall(budget))

\* _precompute_user_matches: get_recommendations(user_id, top_k=50), result dropped
CallWarm(s, user_id) ==
  /\ req[s].pc = "idle"
  /\ CanCall
  /\ \E F \in FaultSets(ReqOps) :
       UnpackReq(s, RecBegin(PackReq(s, NewReq("warm", user_id, <<>>)), F, 0), F, 0,
                 SpendCall(budget))

ReqDbReadUser(s) ==
  /\ req[s].pc = "dbU"
  /\ <<s, 0>> \notin Range(waiting)
  /\ waiting' = WorkerFreed
  /\ \E ok \in DbOutcomes :
       /\ budget' = DbSpend(ok)
       /\ req' = [req EXCEPT ![s].pc = "dbUr",
                          ![s].rd = DbGetUserProfile(req[s].user, ok),
                          ![s].nStore = @ + 1,
                          ![s].fault = @ \/ ~ok,
                          ![s].failed = IF ok \/ req[s].kind # "resolve" THEN @
                                        ELSE @ \cup {"db"}]
  /\ UNCHANGED <<config, batch, now, db, roster, profileCache, compatCache, matchesCache, sub, hist>>

ReqResumeUser(s) ==
  /\ req[s].pc = "dbUr"
  /\ \E F \in FaultSets(ReqOps), k \in TopKs :
       UnpackReq(s, ResumeUser(PackReq(s, req[s]), F, k), F, k, budget)

\* DatabaseManager.get_active_users(max_candidates) on an executor thread
ReqDbReadRoster(s) ==
  /\ req[s].pc = "dbR"
  /\ <<s, 0>> \notin Range(waiting)
  /\ waiting' = WorkerFreed
  /\ \E ok \in DbOutcomes :
       /\ budget' = DbSpend(ok)
       /\ req' = [req EXCEPT ![s].pc = "dbRr",
                          ![s].cands = DbGetActiveUsers(config.max_candidates, ok),
                          ![s].nStore = @ + 1,
                          ![s].fault = @ \/ ~ok]
  /\ UNCHANGED <<config, batch, now, db, roster, profileCache, compatCache, matchesCache, sub, hist>>

\* line 394, then the fan-out
ReqResumeRoster(s) ==
  /\ req[s].pc = "dbRr"
  /\ \E F \in FaultSets(ReqOps), k \in TopKs :
       UnpackReq(s, RecFanOut(PackReq(s, [req[s] EXCEPT !.sysGen = TRUE]),
                              RemoveSelf(req[s].cands, req[s].user), F, k),
                 F, k, budget)

AllSubsDone(s) == \A i \in 1..Len(req[s].cands) : sub[s][i].pc = "done"

\* the results taken in the order in which the coroutines finished
GatheredAsCompleted(s) == [i \in 1..Len(req[s].cands) |-> sub[s][req[s].order[i]].ret]

\* the results of the coroutines that did not fail, the others dropped
GatheredWithoutFailed(s) ==
  LET tasks == [i \in 1..Len(req[s].cands) |-> sub[s][i]]
      good == SelectSeq(tasks, LAMBDA t : t.how \notin {"missing", "raised"})
  IN [i \in 1..Len(good) |-> good[i].ret]

\* asyncio.gather returns the results in the order of its arguments
Gathered(s) == [i \in 1..Len(req[s].cands) |-> sub[s][i].ret]

GatherDone(s) ==
  /\ req[s].pc = "gather"
  /\ AllSubsDone(s)
  /\ IF req[s].kind = "score"
     THEN /\ req' = [req EXCEPT ![s].pc = "done", ![s].resScore = sub[s][1].ret]
          /\ UNCHANGED <<config, batch, waiting, now, db, roster, profileCache, compatCache, matchesCache,
                         sub, hist, budget>>
     ELSE \E F \in FaultSets(ReqOps), k \in TopKs :
            UnpackReq(s, RecFinish(PackReq(s, req[s]), Gathered(s), F, k), F, k, budget)

\* the caller has taken the result; the slot is free again
Release(s) ==
  /\ req[s].pc = "done"
  /\ req' = [req EXCEPT ![s] = NoReq]
  /\ sub' = [sub EXCEPT ![s] = Idle(sub[s])]
  /\ UNCHANGED <<config, batch, waiting, now, db, roster, profileCache, compatCache, matchesCache, hist, budget>>

(***************************************************************************)
(* The environment: time, Redis eviction, and writes to user_profiles by   *)
(* the rest of the application.  It moves between calls, and only while    *)
(* another call can still follow.                                          *)
(***************************************************************************)
Quiet ==
  /\ 0 < budget.calls /\ budget.calls < MaxCalls
  /\ \A s \in Slots : req[s].pc = "idle"

Purge(F) == [k \in DOMAIN F |-> IF F[k] # <<>> /\ F[k][1].exp <= now' THEN <<>> ELSE F[k]]
Forget(H, ttl) ==
  [k \in DOMAIN H |-> IF H[k] # <<>> /\ H[k][1].at + ttl <= now' THEN <<>> ELSE H[k]]

Tick ==
  /\ Quiet
  /\ now < MaxTicks * ProfileTtl
  /\ now' = now + ProfileTtl
  /\ profileCache' = Purge(profileCache)
  /\ compatCache' = Purge(compatCache)
  /\ matchesCache' = Purge(matchesCache)
  /\ hist' = [hist EXCEPT !.prof = Forget(hist.prof, ProfileTtl),
                          !.compat = Forget(hist.compat, CompatTtl),
                          !.warm = Forget(hist.warm, ListTtl)]
  /\ UNCHANGED <<config, batch, waiting, db, roster, req, sub, budget>>

EvictProfile(u) ==
  /\ Quiet
  /\ SpendEnv
  /\ profileCache[u] # <<>>
  /\ profileCache' = [profileCache EXCEPT ![u] = <<>>]
  /\ hist' = [hist EXCEPT !.prof[u] = <<>>]
  /\ UNCHANGED <<config, batch, waiting, now, db, roster, compatCache, matchesCache, req, sub>>

KeysOf(pair) == {<<"compat:">> \o u \o <<":">> \o v : u \in pair, v \in pair}

EvictCompat(k) ==
  /\ Quiet
  /\ SpendEnv
  /\ compatCache[k] # <<>>
  /\ compatCache' = [compatCache EXCEPT ![k] = <<>>]
  /\ hist' = [hist EXCEPT !.compat =
                [p \in PairSets |-> IF k \in KeysOf(p) THEN <<>> ELSE hist.compat[p]]]
  /\ UNCHANGED <<config, batch, waiting, now, db, roster, profileCache, matchesCache, req, sub>>

EvictMatches(u) ==
  /\ Quiet
  /\ SpendEnv
  /\ matchesCache[u] # <<>>
  /\ matchesCache' = [matchesCache EXCEPT ![u] = <<>>]
  /\ hist' = [hist EXCEPT !.warm[u] = <<>>]
  /\ UNCHANGED <<config, batch, waiting, now, db, roster, profileCache, compatCache, req, sub>>

Without(ids, u) == SelectSeq(ids, LAMBDA x : x # u)

\* INSERT or UPDATE of a user_profiles row
UpsertProfile(u, v) ==
  /\ Quiet
  /\ SpendEnv
  /\ db[u] # <<v>>
  /\ db' = [db EXCEPT ![u] = <<v>>]
  /\ UNCHANGED <<config, batch, waiting, now, roster, profileCache, compatCache, matchesCache, req, sub, hist>>

\* last_active = NOW() for a user that has a row
SetActive(u) ==
  /\ Quiet
  /\ SpendEnv
  /\ db[u] # <<>>
  /\ roster # <<u>> \o Without(roster, u)
  /\ roster' = <<u>> \o Without(roster, u)
  /\ UNCHANGED <<config, batch, waiting, now, db, profileCache, compatCache, matchesCache, req, sub, hist>>

\* the row is deleted, or last_active falls out of the 7-day window
DeleteProfile(u) ==
  /\ Quiet
  /\ SpendEnv
  /\ db[u] # <<>>
  /\ db' = [db EXCEPT ![u] = <<>>]
  /\ roster' = Without(roster, u)
  /\ UNCHANGED <<config, batch, waiting, now, profileCache, compatCache, matchesCache, req, sub, hist>>

Env ==
  \/ \E u \in Users : EvictProfile(u)
  \/ \E k \in KeySpace : EvictCompat(k)
  \/ \E u \in Users : EvictMatches(u)
  \/ \E u \in Users, v \in ProfileVals : UpsertProfile(u, v)
  \/ \E u \in Users : SetActive(u)
  \/ \E u \in Users : DeleteProfile(u)

Calls(s) ==
  \/ \E u \in Users : CallResolve(s, u)
  \/ \E u1 \in Users, u2 \in Users : CallScore(s, u1, u2)
  \/ \E u \in Requesters : \E c \in CandidateArgs(u) : CallRecommend(s, u, c)
  \/ \E u \in Requesters : CallWarm(s, u)

Steps(s) ==
  \/ ReqDbReadUser(s)
  \/ ReqResumeUser(s)
  \/ ReqDbReadRoster(s)
  \/ ReqResumeRoster(s)
  \/ \E i \in DOMAIN sub[s] : SubStart(s, i)
  \/ \E i \in DOMAIN sub[s] : SubDbRead(s, i)
  \/ \E i \in DOMAIN sub[s] : SubResume(s, i)
  \/ GatherDone(s)
  \/ Release(s)

Next ==
  \/ Tick
  \/ Env
  \/ \E s \in Slots : Calls(s)
  \/ \E s \in Slots : Steps(s)

Spec == Init /\ [][Next]_vars

NextUnit ==
  \/ \E s \in Slots : Calls(s)
  \/ \E s \in Slots : Steps(s)

SpecUnit == InitUnit /\ [][NextUnit]_vars

(***************************************************************************)
(* The engine under load: six users with rows, all of them active, an      *)
(* interactive call (slot 1) next to a background precomputation (slot 2,  *)
(* _precompute_user_matches added by the endpoint as a background task),   *)
(* and room for one coroutine more than the executor has workers.  Nothing *)
(* fails and nothing else changes.  To bound the model a recommend runs    *)
(* alone; the interactive calls next to a precomputation are resolves.     *)
(***************************************************************************)
PoolUsers == Users \cup {<<"d">>, <<"e">>, <<"f">>}
Interactive == 1
Background == 2
PoolSlots == {Interactive, Background}
PoolSubIdx == 1..(max_workers + 1)

InitPool ==
  /\ now = 0
  /\ config = DefaultConfig
  /\ db = [u \in PoolUsers |-> <<1>>]
  /\ roster = << <<"b">>, <<"c">>, <<"d">>, <<"e">>, <<"f">>, <<"a">> >>
  /\ profileCache = [u \in PoolUsers |-> <<>>]
  /\ compatCache = [k \in {<<"compat:">> \o u \o <<":">> \o v : u \in PoolUsers, v \in PoolUsers} |-> <<>>]
  /\ matchesCache = [u \in PoolUsers |-> <<>>]
  /\ req = [s \in PoolSlots |-> NoReq]
  /\ sub = [s \in PoolSlots |-> [i \in PoolSubIdx |-> NoTask]]
  /\ hist = [prof |-> [u \in PoolUsers |-> <<>>],
             compat |-> [p \in {{u, v} : u \in PoolUsers, v \in PoolUsers} |-> <<>>],
             warm |-> [u \in PoolUsers |-> <<>>],
             last |-> [p \in {{u, v} : u \in PoolUsers, v \in PoolUsers} |-> <<>>],
             nf |-> [u \in PoolUsers |-> FALSE],
             gone |-> [u \in PoolUsers |-> NeverHeld]]
  /\ budget = [calls |-> 0, env |-> MaxEnv, faults |-> MaxFaults]
  /\ waiting = <<>>
  /\ batch = NoBatch

NextPool ==
  \/ \E u \in Requesters : req[Interactive].kind # "recommend" /\ CallWarm(Background, u)
  \/ \E u \in Users : CallResolve(Interactive, u)
  \/ \E u \in Requesters : req[Background].pc = "idle" /\ CallRecommend(Interactive, u, <<>>)
  \/ \E s \in PoolSlots : Steps(s)

SpecPool == InitPool /\ [][NextPool]_vars

(***************************************************************************)
(* Two predict_compatibility requests served by the one event loop at the  *)
(* same time, on the users a and b.                                        *)
(***************************************************************************)
RaceSlots == {1, 2}
RaceUsers == {<<"a">>, <<"b">>}

InitRace ==
  /\ now = 0
  /\ config = DefaultConfig
  /\ db \in InitDbs
  /\ roster = << <<"b">>, <<"a">> >>
  /\ profileCache = ColdProfiles
  /\ compatCache = [k \in KeySpace |-> <<>>]
  /\ matchesCache = [u \in Users |-> <<>>]
  /\ req = [s \in RaceSlots |-> NoReq]
  /\ sub = [s \in RaceSlots |-> NoSubs]
  /\ hist = [prof |-> NotedProfiles(ColdProfiles),
             compat |-> [p \in PairSets |-> <<>>],
             warm |-> [u \in Users |-> <<>>],
             last |-> [p \in PairSets |-> <<>>],
             nf |-> [u \in Users |-> FALSE],
             gone |-> [u \in Users |-> NeverHeld]]
  /\ budget = [calls |-> 0, env |-> MaxEnv, faults |-> MaxFaults]
  /\ waiting = <<>>
  /\ batch = NoBatch

NextRace ==
  \/ \E s \in RaceSlots, u1 \in RaceUsers, u2 \in RaceUsers : CallScore(s, u1, u2)
  \/ \E s \in RaceSlots : \E i \in DOMAIN sub[s] : SubStart(s, i)
  \/ \E s \in RaceSlots : \E i \in DOMAIN sub[s] : SubDbRead(s, i)
  \/ \E s \in RaceSlots : \E i \in DOMAIN sub[s] : SubResume(s, i)
  \/ \E s \in RaceSlots : GatherDone(s)
  \/ \E s \in RaceSlots : Release(s)

SpecRace == InitRace /\ [][NextRace]_vars

(***************************************************************************)
(* predict_compatibility on user ids that contain the ':' the key is       *)
(* joined with: user_id is any str.                                        *)
(***************************************************************************)
KeyUsers == {<<"a">>, <<"c">>, <<"a", ":", "b">>, <<"b", ":", "c">>}
KeyPairs == {{u, v} : u \in KeyUsers, v \in KeyUsers}

InitKeys ==
  /\ now = 0
  /\ config = DefaultConfig
  /\ db = [u \in KeyUsers |-> IF Len(u) = 1 THEN <<2>> ELSE <<1>>]
  /\ roster = <<>>
  /\ profileCache = [u \in KeyUsers |-> <<>>]
  /\ compatCache = [k \in {CompatKey(u, v) : u \in KeyUsers, v \in KeyUsers} |-> <<>>]
  /\ matchesCache = [u \in KeyUsers |-> <<>>]
  /\ req = [s \in Slots |-> NoReq]
  /\ sub = [s \in Slots |-> NoSubs]
  /\ hist = [prof |-> [u \in KeyUsers |-> <<>>],
             compat |-> [p \in KeyPairs |-> <<>>],
             warm |-> [u \in KeyUsers |-> <<>>],
             last |-> [p \in KeyPairs |-> <<>>],
             nf |-> [u \in KeyUsers |-> FALSE],
             gone |-> [u \in KeyUsers |-> NeverHeld]]
  /\ budget = [calls |-> 0, env |-> MaxEnv, faults |-> MaxFaults]
  /\ waiting = <<>>
  /\ batch = NoBatch

NextKeys ==
  \/ \E s \in Slots, u1 \in KeyUsers, u2 \in KeyUsers : CallScore(s, u1, u2)
  \/ \E s \in Slots : \E i \in DOMAIN sub[s] : SubStart(s, i)
  \/ \E s \in Slots : \E i \in DOMAIN sub[s] : SubDbRead(s, i)
  \/ \E s \in Slots : \E i \in DOMAIN sub[s] : SubResume(s, i)
  \/ \E s \in Slots : GatherDone(s)
  \/ \E s \in Slots : Release(s)

SpecKeys == InitKeys /\ [][NextKeys]_vars

(***************************************************************************)
(* _batch_precompute_matches(limit), a background task: it reads the       *)
(* active users on an executor thread, then awaits                         *)
(* _precompute_user_matches for one user after the other, sleeping 0.1 s   *)
(* after each.  The warm it is awaiting runs in slot BatchSlot.            *)
(***************************************************************************)
BatchSlot == 1
BatchLimits == 0..Cardinality(Users)

\* lines 554-560: the task starts and submits get_active_users(limit)
CallWarmBatch(limit) ==
  /\ batch.pc = "idle"
  /\ CanCall
  /\ batch' = [NoBatch EXCEPT !.pc = "dbA", !.limit = limit]
  /\ waiting' = Submit(<<0, 0>>)
  /\ budget' = SpendCall(budget)
  /\ UNCHANGED <<config, now, db, roster, profileCache, compatCache, matchesCache, req, sub, hist>>

\* DatabaseManager.get_active_users(limit) on an executor thread
BatchDbRead ==
  /\ batch.pc = "dbA"
  /\ <<0, 0>> \notin Range(waiting)
  /\ waiting' = WorkerFreed
  /\ \E ok \in DbOutcomes :
       /\ budget' = DbSpend(ok)
       /\ batch' = [batch EXCEPT !.pc = "loop", !.users = DbGetActiveUsers(batch.limit, ok)]
  /\ UNCHANGED <<config, now, db, roster, profileCache, compatCache, matchesCache, req, sub, hist>>

\* lines 562-564: the next user of the loop; _precompute_user_matches runs
\* get_recommendations(user_id, top_k=50) up to its first await
BatchNext ==
  /\ batch.pc = "loop"
  /\ IF batch.idx < Len(batch.users)
     THEN /\ req[BatchSlot].pc = "idle"
          /\ batch' = [batch EXCEPT !.pc = "warming", !.idx = @ + 1]
          /\ \E F \in FaultSets(ReqOps) :
               StoreReq(BatchSlot,
                        RecBegin(PackReq(BatchSlot,
                                         NewReq("warm", batch.users[batch.idx + 1], <<>>)),
                                 F, 0),
                        F, 0, budget)
     ELSE /\ batch' = [batch EXCEPT !.pc = "done"]
          /\ UNCHANGED <<config, now, db, roster, profileCache, compatCache, matchesCache,
                         req, sub, hist, waiting, budget>>

\* a failure met while warming a user ends the whole batch
BatchAfterWarmAborting ==
  /\ batch.pc = "warming"
  /\ req[BatchSlot].pc = "done"
  /\ batch' = [batch EXCEPT !.pc = IF req[BatchSlot].fault THEN "done" ELSE "loop",
                            !.faulted = @ \/ req[BatchSlot].fault]
  /\ req' = [req EXCEPT ![BatchSlot] = NoReq]
  /\ sub' = [sub EXCEPT ![BatchSlot] = Idle(sub[BatchSlot])]
  /\ UNCHANGED <<config, now, db, roster, profileCache, compatCache, matchesCache, hist,
                 waiting, budget>>

\* lines 540-541 and 565-566: the warm has returned; its result is logged and
\* dropped, and the loop goes on after asyncio.sleep(0.1)
BatchAfterWarm ==
  /\ batch.pc = "warming"
  /\ req[BatchSlot].pc = "done"
  /\ batch' = [batch EXCEPT !.pc = "loop", !.faulted = @ \/ req[BatchSlot].fault]
  /\ req' = [req EXCEPT ![BatchSlot] = NoReq]
  /\ sub' = [sub EXCEPT ![BatchSlot] = Idle(sub[BatchSlot])]
  /\ UNCHANGED <<config, now, db, roster, profileCache, compatCache, matchesCache, hist,
                 waiting, budget>>

\* line 570: the task has ended; the endpoint can start another
BatchEnd ==
  /\ batch.pc = "done"
  /\ batch' = NoBatch
  /\ UNCHANGED <<config, now, db, roster, profileCache, compatCache, matchesCache, req, sub,
                 hist, waiting, budget>>

\* what the event loop and the executor threads do by themselves
BatchRuns ==
  \/ BatchDbRead
  \/ BatchNext
  \/ BatchAfterWarm
  \/ ReqDbReadUser(BatchSlot)
  \/ ReqResumeUser(BatchSlot)
  \/ ReqDbReadRoster(BatchSlot)
  \/ ReqResumeRoster(BatchSlot)
  \/ \E i \in DOMAIN sub[BatchSlot] : SubStart(BatchSlot, i)
  \/ \E i \in DOMAIN sub[BatchSlot] : SubDbRead(BatchSlot, i)
  \/ \E i \in DOMAIN sub[BatchSlot] : SubResume(BatchSlot, i)
  \/ GatherDone(BatchSlot)

InitBatch ==
  Start(DefaultConfig, [calls |-> 0, env |-> MaxEnv, faults |-> 0], ColdProfiles, InitDbs)

NextBatch ==
  \/ \E limit \in BatchLimits : CallWarmBatch(limit)
  \/ BatchRuns
  \/ BatchEnd

\* The event loop runs every callback that is ready and every executor job
\* ends: a task that can go on does go on.
SpecBatch == InitBatch /\ [][NextBatch]_vars /\ WF_vars(BatchRuns)

(***************************************************************************)
(* Resolves next to the rest of the application: two get_user_profile      *)
(* calls may be in flight at once, and while a call waits for its executor *)
(* thread or for the event loop the clock goes on and user_profiles rows   *)
(* are rewritten.  hist.gone[u][v] is the time at which the row of u last  *)
(* stopped holding v.                                                      *)
(***************************************************************************)
StaleSlots == {1, 2}
StaleUsers == {<<"a">>}
\* the clock moves by a second, or by a second less than the profile TTL
StaleDelays == {1, ProfileTtl - 1}

InitStale ==
  /\ now = 0
  /\ config = DefaultConfig
  /\ db \in InitDbs
  /\ roster = << <<"b">>, <<"a">> >>
  /\ profileCache = ColdProfiles
  /\ compatCache = [k \in KeySpace |-> <<>>]
  /\ matchesCache = [u \in Users |-> <<>>]
  /\ req = [s \in StaleSlots |-> NoReq]
  /\ sub = [s \in StaleSlots |-> NoSubs]
  /\ hist = [prof |-> NotedProfiles(ColdProfiles),
             compat |-> [p \in PairSets |-> <<>>],
             warm |-> [u \in Users |-> <<>>],
             last |-> [p \in PairSets |-> <<>>],
             nf |-> [u \in Users |-> FALSE],
             gone |-> [u \in Users |-> NeverHeld]]
  /\ budget = [calls |-> 0, env |-> MaxEnv - MaxStaleSteps, faults |-> MaxFaults]
  /\ waiting = <<>>
  /\ batch = NoBatch

\* time passes: by a second at a time while a call is in flight, by either
\* delay between calls
StaleTick(d) ==
  /\ SpendEnv
  /\ (\E s \in DOMAIN req : req[s].pc # "idle") => d = 1
  /\ now + d <= 2 * ProfileTtl
  /\ now' = now + d
  /\ profileCache' = Purge(profileCache)
  /\ compatCache' = Purge(compatCache)
  /\ matchesCache' = Purge(matchesCache)
  /\ hist' = [hist EXCEPT !.prof = Forget(hist.prof, ProfileTtl),
                          !.compat = Forget(hist.compat, CompatTtl),
                          !.warm = Forget(hist.warm, ListTtl)]
  /\ UNCHANGED <<config, batch, waiting, db, roster, req, sub>>

\* UPDATE of a user_profiles row, whether or not a call is in flight
StaleUpsert(u, v) ==
  /\ SpendEnv
  /\ db[u] # <<>>
  /\ db[u] # <<v>>
  /\ db' = [db EXCEPT ![u] = <<v>>]
  /\ hist' = [hist EXCEPT !.gone[u][db[u][1]] = now]
  /\ UNCHANGED <<config, batch, waiting, now, roster, profileCache, compatCache, matchesCache,
                 req, sub>>

NextStale ==
  \/ \E s \in StaleSlots, u \in StaleUsers : CallResolve(s, u)
  \/ \E s \in StaleSlots : ReqDbReadUser(s)
  \/ \E s \in StaleSlots : ReqResumeUser(s)
  \/ \E s \in StaleSlots : Release(s)
  \/ \E d \in StaleDelays : StaleTick(d)
  \/ \E u \in StaleUsers, v \in ProfileVals : StaleUpsert(u, v)

SpecStale == InitStale /\ [][NextStale]_vars

(***************************************************************************)
(* Properties.                                                             *)
(***************************************************************************)
IsRecommend(s) == req[s].kind = "recommend"
Finished(s) == req[s].pc = "done"
NoCandidateArg(s) == req[s].given = <<>>
\* the call went past the cached list and resolved the requester
FullRun(s) == Finished(s) /\ ~req[s].fast /\ req[s].resolved

\* the (candidate, score) pairs of the call, in the order of the candidate list
Pairs(s) ==
  [i \in 1..Len(req[s].cands) |->
     [user_id |-> req[s].cands[i], compatibility_score |-> sub[s][i].ret,
      timestamp |-> now]]

RECURSIVE SumScoring(_, _)
SumScoring(s, n) == IF n = 0 THEN 0 ELSE sub[s][n].nScore + SumScoring(s, n - 1)
ScoringCalls(s) == SumScoring(s, NSub)

Failed(t) == t.how \in {"missing", "raised"}

\* C1: a recommend without candidate_ids whose requester resolves and whose
\* system-generated candidate set is not empty leaves, on return, the sorted
\* result cut to the retained length under the requester's key of the list
\* cache.
C1_ListCachedOnReturn ==
  \A s \in Slots :
    (IsRecommend(s) /\ NoCandidateArg(s) /\ FullRun(s) /\ req[s].sysGen
       /\ req[s].cands # <<>> /\ ~req[s].fault)
    => /\ matchesCache[req[s].user] # <<>>
       /\ Loads(matchesCache[req[s].user][1].val)
            = Prefix(SortByScoreDesc(Pairs(s)), RetainLen)

\* C2: after a warm of a resolvable user with another active user, and until
\* the list expires or is evicted, the next recommend without candidate_ids is
\* served from the cached list: no fan-out, no scoring call, no store read.
C2_WarmedThenServedFromCache ==
  \A s \in Slots :
    (IsRecommend(s) /\ NoCandidateArg(s) /\ req[s].warmAtCall /\ ~req[s].fault)
    => /\ req[s].fast
       /\ ~req[s].fanout
       /\ req[s].nStore = 0
       /\ ScoringCalls(s) = 0

\* C3 as stated: a score(B,A) that succeeds returns what score(A,B) last
\* computed, whatever happened in between.
C3_SymmetricAlways ==
  \A s \in Slots :
    (req[s].kind = "score" /\ Finished(s) /\ req[s].lastAtCall # <<>>
       /\ sub[s][1].how \in {"hit", "computed"} /\ ~sub[s][1].fault
       /\ req[s].lastAtCall[1].by = <<req[s].cands[1], req[s].user>>)
    => req[s].resScore = req[s].lastAtCall[1].val

\* C4: a second score(A,B) inside the compatibility TTL of the entry the first
\* one wrote returns the same value, and the two calls together invoke the
\* scoring function exactly once.
C4_SecondScoreFromCache ==
  \A s \in Slots :
    (req[s].kind = "score" /\ Finished(s) /\ req[s].pairAtCall # <<>>
       /\ req[s].pairAtCall[1].by = <<req[s].user, req[s].cands[1]>>
       /\ ~sub[s][1].fault)
    => /\ req[s].resScore = req[s].pairAtCall[1].val
       /\ req[s].pairAtCall[1].calls + sub[s][1].nScore = 1

C4_Witness ==
  \E s \in Slots :
    /\ req[s].kind = "score" /\ Finished(s) /\ req[s].pairAtCall # <<>>
    /\ req[s].user # req[s].cands[1]
    /\ req[s].pairAtCall[1].by = <<req[s].user, req[s].cands[1]>>
    /\ ~sub[s][1].fault
    /\ sub[s][1].nScore = 0

\* C5: resolve on a cold cache reads the store exactly once; a resolve inside
\* the profile TTL of a cached copy reads the store zero times and returns the
\* profile that was cached.
C5_ResolveReadThrough ==
  \A s \in Slots :
    (req[s].kind = "resolve" /\ Finished(s))
    => /\ req[s].profAtCall = <<>> => req[s].nStore = 1
       /\ (req[s].histAtCall # <<>> /\ ~req[s].fault)
            => /\ req[s].nStore = 0
               /\ req[s].resProfile = <<req[s].histAtCall[1].val>>

C5_Witness ==
  \E s \in Slots :
    /\ req[s].kind = "resolve" /\ Finished(s)
    /\ req[s].histAtCall # <<>> /\ ~req[s].fault
    /\ req[s].nStore = 0
    /\ req[s].resProfile # <<>>

\* C6: the entries recommend returns are in descending score order, and
\* entries of equal score are in ascending identifier order.
C6_TieBreakById ==
  \A s \in Slots :
    (IsRecommend(s) /\ Finished(s))
    => \A i \in 1..(Len(req[s].resList) - 1) :
         LET x == req[s].resList[i]
             y == req[s].resList[i + 1]
         IN \/ x.compatibility_score > y.compatibility_score
            \/ /\ x.compatibility_score = y.compatibility_score
               /\ ~StrLess(y.user_id, x.user_id)

\* C7: the sequence recommend returns is determined by the (candidate, score)
\* pairs and the candidate list alone: whatever the order in which the gathered
\* coroutines finished, it is the stable descending sort of the pairs, cut to
\* top_k.
C7_OrderIndependent ==
  \A s \in Slots :
    (req[s].kind \in {"recommend", "warm"} /\ FullRun(s))
    => req[s].resList = Prefix(SortByScoreDesc(Pairs(s)), req[s].topk)

C7_Witness ==
  \E s \in Slots :
    /\ IsRecommend(s) /\ FullRun(s)
    /\ Len(req[s].cands) = 2
    /\ req[s].order = <<2, 1>>
    /\ sub[s][1].ret # sub[s][2].ret
    /\ Len(req[s].resList) = 2

\* C8: when resolution or scoring fails for a candidate, a recommend with
\* top_k >= N still returns all N candidates, the failed one at 0.5 and every
\* other at the score its own coroutine returned.
C8_PartialFailureIsolated ==
  \A s \in Slots :
    (IsRecommend(s) /\ FullRun(s) /\ req[s].topk >= Len(req[s].cands))
    => /\ Len(req[s].resList) = Len(req[s].cands)
       /\ \A i \in 1..Len(req[s].cands) :
            \E j \in 1..Len(req[s].resList) :
              /\ req[s].resList[j].user_id = req[s].cands[i]
              /\ req[s].resList[j].compatibility_score
                   = IF Failed(sub[s][i]) THEN 5 ELSE sub[s][i].ret
              /\ ~Failed(sub[s][i]) => sub[s][i].how \in {"hit", "computed"}

C8_Witness ==
  \E s \in Slots :
    /\ IsRecommend(s) /\ FullRun(s)
    /\ Len(req[s].cands) = 2 /\ req[s].topk >= 2
    /\ req[s].cands[1] # req[s].cands[2]
    /\ Failed(sub[s][1]) /\ sub[s][2].how = "computed" /\ sub[s][2].ret # 5
    /\ Len(req[s].resList) = 2

\* C9: a recommend without candidate_ids that finds a cached list under the
\* requester's key returns the first top_k entries of that list, with no
\* fan-out and no scoring call.
C9_ServedFromCachedList ==
  \A s \in Slots :
    (IsRecommend(s) /\ NoCandidateArg(s) /\ Finished(s)
       /\ req[s].listAtCall # <<>> /\ ~req[s].fault)
    => /\ req[s].resList = Prefix(Loads(req[s].listAtCall[1].val), req[s].topk)
       /\ ~req[s].fanout
       /\ ScoringCalls(s) = 0

\* C10: no step of a recommend call that was given a candidate list changes
\* the list cache.
C10_SuppliedNeverCached ==
  [][\A s \in Slots :
       (req'[s].kind = "recommend" /\ req'[s].given # <<>> /\ req'[s] # req[s])
       => matchesCache' = matchesCache]_vars

\* the user_profiles row of user_id as get_user_profile returns it
RowOf(user_id) == DbGetUserProfile(user_id, TRUE)

\* C11: every predict_compatibility coroutine ends by returning a value,
\* never by an exception, whatever failed in it; when it could not produce a
\* real score (a profile missing, the scoring function raising) the value is
\* the neutral 0.5, and score hands its caller that value.
C11_ScoreAlwaysReturns ==
  \A s \in Slots :
    /\ \A i \in SubIdx :
         sub[s][i].pc = "done"
         => /\ sub[s][i].how \in {"hit", "computed", "missing", "raised"}
            /\ Failed(sub[s][i]) => sub[s][i].ret = 5
    /\ (req[s].kind = "score" /\ Finished(s)) => req[s].resScore = sub[s][1].ret

\* a cache failure, a store failure and a scoring exception in one call
C11_Witness ==
  \E s \in Slots :
    /\ req[s].kind = "score" /\ Finished(s)
    /\ sub[s][1].how \in {"missing", "raised"}
    /\ sub[s][1].fault
    /\ sub[s][1].nStore > 0
    /\ budget.faults = MaxFaults
    /\ req[s].resScore = 5

\* C13: a predict_compatibility that finds a profile missing returns 0.5 and
\* writes nothing to the compatibility cache: every live entry of that cache
\* is a score the scoring function computed for the pair, so a later score for
\* the pair cannot be served a cached default.
C13_DefaultNeverCached ==
  /\ \A s \in Slots : \A i \in SubIdx :
       (sub[s][i].pc = "done" /\ sub[s][i].how = "missing")
       => /\ sub[s][i].ret = 5
          /\ sub[s][i].nScore = 0
          /\ ~sub[s][i].fault
               => compatCache[CompatKey(sub[s][i].u1, sub[s][i].u2)] = <<>>
  /\ \A u \in Users, v \in Users :
       compatCache[CompatKey(u, v)] # <<>>
       => /\ hist.compat[{u, v}] # <<>>
          /\ FloatOfStr(compatCache[CompatKey(u, v)][1].val) = hist.compat[{u, v}][1].val
  /\ \A k \in KeySpace : compatCache[k] # <<>> => \E u, v \in Users : k = CompatKey(u, v)

C13_Witness ==
  \E s \in Slots :
    /\ req[s].kind = "score" /\ Finished(s)
    /\ sub[s][1].how = "missing" /\ ~sub[s][1].fault
    /\ sub[s][1].nStore = 2
    /\ db[req[s].user] # <<>>
    /\ req[s].resScore = 5
    /\ compatCache[CompatKey(req[s].user, req[s].cands[1])] = <<>>

\* no live profile entry for the user when the call of slot s was made
NoEntryAtCall(s) == req[s].profAtCall = <<>> \/ req[s].profAtCall[1].exp <= now

\* C14: a resolve in which nothing fails and that returns NotFound leaves no
\* profile entry behind; and a resolve that follows a NotFound for the user,
\* finds no entry and finds the row created in between reads the store once
\* and returns the new row.
C14_NotFoundNotCached ==
  \A s \in Slots :
    (req[s].kind = "resolve" /\ Finished(s) /\ req[s].failed = {})
    => /\ (req[s].nfAtCall /\ NoEntryAtCall(s) /\ db[req[s].user] # <<>>)
            => /\ req[s].resProfile = RowOf(req[s].user)
               /\ req[s].nStore = 1
       /\ req[s].resProfile = <<>> => profileCache[req[s].user] = <<>>

C14_Witness ==
  \E s \in Slots :
    /\ req[s].kind = "resolve" /\ Finished(s) /\ req[s].failed = {}
    /\ req[s].nfAtCall /\ NoEntryAtCall(s)
    /\ req[s].user = <<"c">>
    /\ req[s].nStore = 1
    /\ req[s].resProfile # <<>>
    /\ req[s].resProfile = RowOf(req[s].user)

\* C15: in resolve a cache read error is a miss (the store is read), a cache
\* write error does not keep the row that was read from being returned, a
\* store error gives NotFound, and the call always returns.
C15_ResolveFailsOpen ==
  \A s \in Slots :
    (req[s].kind = "resolve" /\ Finished(s))
    => /\ "pget" \in req[s].failed => req[s].nStore = 1
       /\ (req[s].nStore = 1 /\ "db" \notin req[s].failed)
            => req[s].resProfile = RowOf(req[s].user)
       /\ "db" \in req[s].failed => req[s].resProfile = <<>>
       /\ req[s].nStore \in {0, 1}

\* the cached copy cannot be read and the row cannot be written back
C15_Witness ==
  \E s \in Slots :
    /\ req[s].kind = "resolve" /\ Finished(s)
    /\ req[s].failed = {"pget", "pset"}
    /\ req[s].profAtCall # <<>>
    /\ req[s].nStore = 1
    /\ req[s].resProfile = RowOf(req[s].user)
    /\ req[s].resProfile # <<>>

\* C16: a recommend that uses no cached list and whose requester resolves to
\* NotFound returns the empty list, starts no predict_compatibility and leaves
\* the list cache as it was.
C16_UnknownRequester ==
  \A s \in Slots :
    (IsRecommend(s) /\ Finished(s) /\ ~req[s].fast /\ ~req[s].resolved)
    => /\ req[s].resList = <<>>
       /\ ~req[s].fanout
       /\ ScoringCalls(s) = 0
       /\ \A i \in SubIdx : sub[s][i].pc = "idle"
       /\ ~req[s].wrote
       /\ matchesCache[req[s].user] = req[s].listAtCall

C16_Witness ==
  \E s \in Slots :
    /\ IsRecommend(s) /\ Finished(s) /\ ~req[s].fast /\ ~req[s].resolved
    /\ req[s].failed = {} /\ ~req[s].fault
    /\ req[s].nStore = 1
    /\ req[s].given # <<>> /\ req[s].given[1] # <<>>

\* C17: every configuration the engine serves a call with keeps
\* list_ttl > compat_ttl > profile_ttl.
C17_TtlOrdering ==
  (\E s \in Slots : req[s].kind # "none")
  => (ListTtl > CompatTtl /\ CompatTtl > ProfileTtl)

\* C19: a recommend never scores more candidates than max_candidates, whether
\* it derived the candidates from the roster or was given them.
C19_CandidatesBounded ==
  \A s \in Slots :
    req[s].kind \in {"recommend", "warm"}
    => Cardinality({sub[s][i].u2 : i \in {j \in SubIdx : sub[s][j].pc # "idle"}})
         <= config.max_candidates

\* a score inside [0,1]
InUnitRange(x) == ~IsNaN(x) /\ ~Lt(x, 0) /\ ~Lt(10, x)

\* C12: every score a predict_compatibility coroutine returns, every score
\* that score hands its caller and every live entry of the compatibility
\* cache lies in [0,1].
C12_ScoresInRange ==
  /\ \A s \in Slots :
       /\ \A i \in SubIdx : sub[s][i].pc = "done" => InUnitRange(sub[s][i].ret)
       /\ (req[s].kind = "score" /\ Finished(s)) => InUnitRange(req[s].resScore)
  /\ \A k \in KeySpace :
       (compatCache[k] # <<>> /\ compatCache[k][1].exp > now)
       => InUnitRange(FloatOfStr(compatCache[k][1].val))

\* the predict_compatibility coroutines of slot s that have begun and have
\* not returned
InFlight(s) == {i \in DOMAIN sub[s] : sub[s][i].pc \notin {"idle", "start", "done"}}

\* C18: a recommend request never has more predict_compatibility coroutines
\* in flight than the executor has workers.
C18_FanOutBounded ==
  \A s \in DOMAIN req :
    req[s].kind = "recommend" => Cardinality(InFlight(s)) <= max_workers

\* C20: a database read of an interactive resolve or recommend never waits in
\* the executor's queue while a worker runs a read of a precomputation.
C20_InteractiveNeverWaits ==
  \A n \in DOMAIN waiting :
    req[waiting[n][1]].kind \in {"resolve", "recommend"}
    => \A j \in Running : req[j[1]].kind # "warm"

\* C21: the batch fetches at most limit users; while it warms, the one warm
\* in flight is that of the user the loop is at; at its end it has gone
\* through every fetched user, in roster order, whatever failed on the way;
\* and once the users are fetched the batch does reach its end.
C21_BatchWarmsAll ==
  /\ [](/\ batch.pc \in {"loop", "warming", "done"}
           => /\ Len(batch.users) <= batch.limit
              /\ batch.users = Prefix(roster, Len(batch.users))
              /\ batch.idx <= Len(batch.users)
        /\ batch.pc = "warming"
           => /\ req[BatchSlot].kind = "warm"
              /\ req[BatchSlot].user = batch.users[batch.idx]
        /\ batch.pc \in {"idle", "dbA", "loop", "done"} => req[BatchSlot].kind = "none"
        /\ batch.pc = "done" => batch.idx = Len(batch.users))
  /\ (batch.pc = "loop") ~> (batch.pc = "done" /\ batch.idx = Len(batch.users))

\* a batch over two users has ended although a warm of it met a failure
C21_Witness ==
  /\ batch.pc = "done"
  /\ Len(batch.users) = 2
  /\ batch.idx = 2
  /\ batch.faulted

\* C22: when two score calls on the same unordered pair have both finished
\* and nothing failed in them, the compatibility entry of the pair holds the
\* value that both of them returned.
C22_RaceHarmless ==
  \A s \in DOMAIN req, t \in DOMAIN req :
    (/\ s # t
     /\ req[s].kind = "score" /\ Finished(s) /\ ~sub[s][1].fault
     /\ req[t].kind = "score" /\ Finished(t) /\ ~sub[t][1].fault
     /\ {sub[s][1].u1, sub[s][1].u2} = {sub[t][1].u1, sub[t][1].u2}
     /\ sub[s][1].how \in {"hit", "computed"}
     /\ sub[t][1].how \in {"hit", "computed"})
    => LET key == CompatKey(sub[s][1].u1, sub[s][1].u2)
       IN /\ compatCache[key] # <<>>
          /\ FloatOfStr(compatCache[key][1].val) = req[s].resScore
          /\ req[s].resScore = req[t].resScore

\* C23: distinct unordered pairs have distinct keys, so a score call served
\* from the compatibility cache returns a value that was computed for its
\* own pair.
C23_KeyInjective ==
  \A s \in DOMAIN req :
    (req[s].kind = "score" /\ Finished(s) /\ sub[s][1].how = "hit")
    => LET pair == {sub[s][1].u1, sub[s][1].u2}
       IN /\ hist.compat[pair] # <<>>
          /\ req[s].resScore = hist.compat[pair][1].val

(***************************************************************************)
(* C24: every profile returned by resolve carries a value in [0,1] for its *)
(* schema attribute: a column that is NULL in the users table (or in the   *)
(* cached copy) has been replaced by the resolver before the return, so    *)
(* that no profile with an unset attribute reaches the caller.             *)
(***************************************************************************)
C24_ResolvedProfileComplete ==
  \A s \in Slots :
    (req[s].kind = "resolve" /\ Finished(s) /\ req[s].resProfile # <<>>)
      => req[s].resProfile[1].attrs \in ProfileVals

(***************************************************************************)
(* C25: a score(A,B) that finds the pair's entry in the compatibility      *)
(* cache returns the cached value and does nothing else: it reads no       *)
(* profile from the cache, submits no store read, makes no scoring call    *)
(* and writes no cache, so the entry keeps its value and its expiry.       *)
(***************************************************************************)
C25_HitTouchesNothing ==
  [][\A s \in Slots : \A i \in DOMAIN sub[s] :
       (sub[s][i].pc = "start" /\ sub'[s][i].pc = "done" /\ sub'[s][i].how = "hit")
         => /\ CacheGetCompat(compatCache, sub[s][i].u1, sub[s][i].u2, TRUE)
                 = <<sub'[s][i].ret>>
            /\ sub'[s][i].nProf = 0
            /\ sub'[s][i].nStore = 0
            /\ sub'[s][i].nScore = 0
            /\ waiting' = waiting
            /\ UNCHANGED <<profileCache, compatCache, matchesCache, db, roster, hist>>]_vars

C25_Witness ==
  \E s \in Slots : \E i \in DOMAIN sub[s] :
    /\ sub[s][i].pc = "done" /\ sub[s][i].how = "hit"
    /\ sub[s][i].u1 # sub[s][i].u2
    /\ now > 0
    /\ compatCache[CompatKey(sub[s][i].u1, sub[s][i].u2)] # <<>>

(***************************************************************************)
(* C26: in a recommend without candidate_ids that goes through the full    *)
(* computation, what the roster read returns is the roster cut to          *)
(* max_candidates (nothing, when the read fails), the candidate set is     *)
(* that list without the requester, and neither the returned list nor a    *)
(* list held in the list cache under a user's key names that user.         *)
(***************************************************************************)
C26_NeverRecommendsSelf ==
  /\ [](\A s \in Slots :
          /\ req[s].pc = "dbRr"
                => req[s].cands \in {Prefix(roster, config.max_candidates), <<>>}
          /\ (req[s].kind \in {"recommend", "warm"} /\ NotCandidates(req[s].given)
                 /\ FullRun(s))
                => /\ req[s].sysGen
                   /\ \A i \in 1..Len(req[s].cands) : req[s].cands[i] # req[s].user
                   /\ \A i \in 1..Len(req[s].resList) :
                        req[s].resList[i].user_id # req[s].user)
  /\ [](\A u \in Users :
          matchesCache[u] # <<>>
            => \A i \in 1..Len(Loads(matchesCache[u][1].val)) :
                 Loads(matchesCache[u][1].val)[i].user_id # u)
  /\ [][\A s \in Slots :
          (req[s].pc = "dbRr" /\ req'[s].pc # "dbRr")
            => req'[s].cands = SelectSeq(req[s].cands, LAMBDA cid : cid # req[s].user)]_vars

C26_Witness ==
  \E s \in Slots :
    /\ req[s].kind = "recommend" /\ NoCandidateArg(s) /\ FullRun(s)
    /\ \E i \in 1..Len(roster) : roster[i] = req[s].user
    /\ Len(roster) > 1
    /\ req[s].cands # <<>>
    /\ req[s].resList # <<>>

C29_SuppliedListIsFinal ==
  \A s \in Slots :
    (IsRecommend(s) /\ req[s].given # <<>> /\ Finished(s))
      => /\ ~req[s].sysGen
         /\ ~req[s].wrote
         /\ \A i \in 1..Len(req[s].resList) :
              \E j \in 1..Len(req[s].given[1]) :
                req[s].resList[i].user_id = req[s].given[1][j]

HeldWithinTtl(u, v) ==
  \/ db[u] = <<v>>
  \/ hist.gone[u][v] >= 0 /\ now - hist.gone[u][v] <= ProfileTtl

(***************************************************************************)
(* C27: whatever the interleaving of get_user_profile calls and updates of *)
(* user_profiles, the profile a call returns is a value the row held at    *)
(* some moment no more than the profile TTL before the return.             *)
(***************************************************************************)
C27_StalenessBounded ==
  [][\A s \in DOMAIN req :
       (req'[s].kind = "resolve" /\ req[s].pc # "done" /\ req'[s].pc = "done"
          /\ req'[s].resProfile # <<>>)
         => HeldWithinTtl(req'[s].user, req'[s].resProfile[1].attrs)]_vars
====
